---- MODULE Spec2Model ----
(***************************************************************************)
(* NonlinearController (src/python/controller.py): a cascaded quadrotor    *)
(* controller made of six stateless methods over ten fixed gains.          *)
(*                                                                         *)
(* Numbers.  Every number of the program is a binary float.  A float is    *)
(* modelled as a pair <<n, d>>: d > 0 is the exact rational n/d in lowest  *)
(* terms, <<1,0>> is +inf, <<-1,0>> is -inf and <<0,0>> is NaN.            *)
(* Arithmetic is exact on the rationals (rounding to the nearest float is  *)
(* not modelled, nor the sign of zero) and follows IEEE 754 on the special *)
(* values: a finite result whose magnitude exceeds MaxFloat becomes an     *)
(* infinity, x/0 is an infinity or NaN, inf - inf is NaN, and every        *)
(* comparison with NaN is false.  MaxFloat stands for the largest finite   *)
(* double (about 1.8e308), scaled down to keep the state space small.       *)
(***************************************************************************)
EXTENDS Integers, Sequences, FiniteSets, TLC

VARIABLES self, op, args, argsAfter, ret

vars == <<self, op, args, argsAfter, ret>>

\* Largest finite magnitude of a float in the model.
MaxFloat == 10000
\* Longest list a caller passes as a trajectory component.
MaxLen == 3

------------------------------------------------------------------------------
(* Floats *)

Abs(x) == IF x < 0 THEN -x ELSE x

Sign(x) == IF x < 0 THEN -1 ELSE IF x > 0 THEN 1 ELSE 0

RECURSIVE GCD(_, _)
GCD(a, b) == IF b = 0 THEN a ELSE GCD(b, a % b)

NaN == <<0, 0>>

PInf == <<1, 0>>

NInf == <<-1, 0>>

IsNaN(x) == x = NaN

IsFinite(x) == x[2] # 0

IsInf(x) == x[2] = 0 /\ x[1] # 0

\* The float nearest n/d (d > 0): the rational itself, or an infinity on overflow.
Round(n, d) ==
    IF (Abs(n) \div d > MaxFloat) \/ (Abs(n) \div d = MaxFloat /\ Abs(n) % d # 0)
    THEN <<Sign(n), 0>>
    ELSE LET g == GCD(Abs(n), d) IN <<n \div g, d \div g>>

F(n) == Round(n, 1)

Neg(a) == <<-a[1], a[2]>>

FAbs(a) == <<Abs(a[1]), a[2]>>

Add(a, b) ==
    IF IsNaN(a) \/ IsNaN(b) THEN NaN
    ELSE IF IsInf(a) THEN (IF IsInf(b) /\ b # a THEN NaN ELSE a)
    ELSE IF IsInf(b) THEN b
    ELSE LET g == GCD(a[2], b[2])
         IN  Round(a[1] * (b[2] \div g) + b[1] * (a[2] \div g), (a[2] \div g) * b[2])

Sub(a, b) == Add(a, Neg(b))

Mul(a, b) ==
    IF IsNaN(a) \/ IsNaN(b) THEN NaN
    ELSE IF IsInf(a) \/ IsInf(b)
         THEN (IF a[1] = 0 \/ b[1] = 0 THEN NaN ELSE <<Sign(a[1]) * Sign(b[1]), 0>>)
    ELSE IF a[1] = 0 \/ b[1] = 0 THEN <<0, 1>>
    ELSE LET g1 == GCD(Abs(a[1]), b[2])
             g2 == GCD(Abs(b[1]), a[2])
             n1 == a[1] \div g1
             n2 == b[1] \div g2
             d1 == a[2] \div g2
             d2 == b[2] \div g1
         IN  \* a product beyond a machine integer is far beyond MaxFloat
             IF Abs(n1) > 2147483647 \div Abs(n2) /\ d1 * d2 <= 2147483647 \div MaxFloat
             THEN <<Sign(n1) * Sign(n2), 0>>
             ELSE Round(n1 * n2, d1 * d2)

Div(a, b) ==
    IF IsNaN(a) \/ IsNaN(b) THEN NaN
    ELSE IF IsInf(a)
         THEN (IF IsInf(b) THEN NaN
               ELSE <<a[1] * (IF b[1] < 0 THEN -1 ELSE 1), 0>>)
    ELSE IF IsInf(b) THEN <<0, 1>>
    ELSE IF b[1] = 0 THEN (IF a[1] = 0 THEN NaN ELSE <<Sign(a[1]), 0>>)
    ELSE Mul(a, <<Sign(b[1]) * b[2], Abs(b[1])>>)

Lt(a, b) ==
    IF IsNaN(a) \/ IsNaN(b) THEN FALSE
    ELSE IF a[2] = 0 /\ b[2] = 0 THEN a[1] < b[1]
    ELSE IF a[2] = 0 THEN a[1] < 0
    ELSE IF b[2] = 0 THEN b[1] > 0
    ELSE a[1] * b[2] < b[1] * a[2]

Gt(a, b) == Lt(b, a)

Le(a, b) == ~IsNaN(a) /\ ~IsNaN(b) /\ ~Lt(b, a)

Ge(a, b) == Le(b, a)

\* x == y of two floats: NaN equals nothing.
FEq(a, b) == ~IsNaN(a) /\ ~IsNaN(b) /\ a = b

RECURSIVE ISqrtIn(_, _, _)
ISqrtIn(n, lo, hi) ==
    IF lo >= hi THEN lo
    ELSE LET mid == (lo + hi + 1) \div 2
         IN  IF mid * mid <= n THEN ISqrtIn(n, mid, hi) ELSE ISqrtIn(n, lo, mid - 1)

\* floor(sqrt(n)) of an integer n >= 0.
ISqrt(n) == ISqrtIn(n, 0, IF n < 40000 THEN n ELSE 40000)

\* np.sqrt: exact when n/d is the square of a rational, rounded down otherwise.
Sqrt(a) ==
    IF IsNaN(a) THEN NaN
    ELSE IF a = PInf THEN PInf
    ELSE IF a[1] < 0 THEN NaN
    ELSE Round(ISqrt(a[1] * a[2]), a[2])

\* np.clip(x, lo, hi) of a scalar: minimum(maximum(x, lo), hi); NaN stays NaN.
Clip(x, lo, hi) ==
    IF IsNaN(x) THEN NaN
    ELSE IF Lt(x, lo) THEN lo
    ELSE IF Gt(x, hi) THEN hi
    ELSE x

(* Element-wise numpy arithmetic on arrays (sequences of floats). *)
VSub(u, v) == [i \in 1..Len(u) |-> Sub(u[i], v[i])]

VAdd(u, v) == [i \in 1..Len(u) |-> Add(u[i], v[i])]

VMul(u, v) == [i \in 1..Len(u) |-> Mul(u[i], v[i])]

VScale(k, u) == [i \in 1..Len(u) |-> Mul(k, u[i])]

VDivS(u, k) == [i \in 1..Len(u) |-> Div(u[i], k)]

VInt(v) == [i \in 1..Len(v) |-> F(v[i])]

------------------------------------------------------------------------------
(* Module constants and the constructor *)

DRONE_MASS_KG == <<1, 2>>

MOI == <<(<<1, 200>>), (<<1, 200>>), (<<1, 100>>)>>

MAX_THRUST == <<10, 1>>

MAX_TORQUE == <<1, 1>>

\* np.pi, itself a rational approximation of pi.
PI == <<355, 113>>

\* __init__: the ten gains, stored as given.
NonlinearController(Kp_lateral_pos, Kd_lateral_pos, Kp_alt, Kd_alt, Kp_roll, Kp_pitch, Kp_yaw, Kp_p, Kp_q, Kp_r) ==
    [Kp_lateral_pos |-> Kp_lateral_pos, Kd_lateral_pos |-> Kd_lateral_pos,
     Kp_alt |-> Kp_alt, Kd_alt |-> Kd_alt,
     Kp_roll |-> Kp_roll, Kp_pitch |-> Kp_pitch, Kp_yaw |-> Kp_yaw,
     Kp_p |-> Kp_p, Kp_q |-> Kp_q, Kp_r |-> Kp_r]

\* The constructor's default arguments.
DefaultGains ==
    NonlinearController(F(6), F(4), F(4), <<3, 2>>, F(8), F(8), <<9, 2>>,
                        F(20), F(20), F(5))

\* A caller's own tuning (the alternatives noted beside the defaults).
TunedGains ==
    NonlinearController(F(8), F(5), F(4), <<5, 2>>, F(8), F(8), F(6),
                        F(20), F(20), F(5))

------------------------------------------------------------------------------
(* trajectory_control *)

\* A Python exception leaving the method.
Raise(exc) == [raised |-> exc]

\* Whether seq[i] is a valid Python subscript (negative i counts from the end).
PyIndexOK(s, i) == -Len(s) <= i /\ i < Len(s)

\* The 0-based position Python's seq[i] reads.
PyPos(s, i) == IF i >= 0 THEN i ELSE Len(s) + i

PyIndex(s, i) == s[PyPos(s, i) + 1]

\* np.argmin: the 0-based index of the first smallest element.
argmin(xs) ==
    CHOOSE i \in 0..(Len(xs) - 1) :
        /\ \A j \in 0..(Len(xs) - 1) : ~Lt(xs[j + 1], xs[i + 1])
        /\ \A j \in 0..(i - 1) : Lt(xs[i + 1], xs[j + 1])

\* ind_min of trajectory_control.
NearestIndex(time_trajectory, current_time) ==
    argmin([i \in 1..Len(time_trajectory) |->
                FAbs(Sub(time_trajectory[i], current_time))])

\* The two closing statements: interpolation over the chosen segment.
Interpolate(position0, position1, time0, time1, yaw_cmd, current_time, seg) ==
    [raised |-> "",
     position_cmd |->
        VAdd(VDivS(VScale(Sub(current_time, time0), VSub(position1, position0)),
                   Sub(time1, time0)),
             position0),
     velocity_cmd |-> VDivS(VSub(position1, position0), Sub(time1, time0)),
     yaw_cmd |-> yaw_cmd,
     seg |-> seg]

\* The branch taken when current_time < time_ref: the segment [ind_min-1, ind_min].
SegmentBefore(P, Y, T, ind_min, current_time) ==
    IF ~PyIndexOK(P, ind_min - 1) \/ ~PyIndexOK(P, ind_min)
       \/ ~PyIndexOK(Y, ind_min - 1)
    THEN Raise("IndexError")
    ELSE Interpolate(PyIndex(P, ind_min - 1), PyIndex(P, ind_min),
                     PyIndex(T, ind_min - 1), PyIndex(T, ind_min),
                     PyIndex(Y, ind_min - 1), current_time,
                     <<PyPos(P, ind_min - 1), ind_min>>)

\* The else branch: hold at the last position, or the segment [ind_min, ind_min+1].
SegmentAfter(P, Y, T, ind_min, current_time) ==
    IF ~PyIndexOK(Y, ind_min) THEN Raise("IndexError")
    ELSE IF ind_min >= Len(P) - 1
    THEN IF ~PyIndexOK(P, ind_min) THEN Raise("IndexError")
         ELSE Interpolate(PyIndex(P, ind_min), PyIndex(P, ind_min), F(0), F(1),
                          PyIndex(Y, ind_min), current_time, <<ind_min, ind_min>>)
    ELSE IF ~PyIndexOK(T, ind_min + 1) THEN Raise("IndexError")
    ELSE Interpolate(PyIndex(P, ind_min), PyIndex(P, ind_min + 1),
                     PyIndex(T, ind_min), PyIndex(T, ind_min + 1),
                     PyIndex(Y, ind_min), current_time, <<ind_min, ind_min + 1>>)

\* The comparison written <= : a sample time itself counts as before.
BeforeRef_OrEqual(current_time, time_ref) == Le(current_time, time_ref)

\* Whether the first branch is taken.
BeforeRef(current_time, time_ref) == Lt(current_time, time_ref)

trajectory_control(position_trajectory, yaw_trajectory, time_trajectory, current_time) ==
    IF Len(time_trajectory) = 0 THEN Raise("ValueError")
    ELSE LET ind_min == NearestIndex(time_trajectory, current_time)
             time_ref == time_trajectory[ind_min + 1]
         IN  IF BeforeRef(current_time, time_ref)
             THEN SegmentBefore(position_trajectory, yaw_trajectory, time_trajectory,
                                ind_min, current_time)
             ELSE SegmentAfter(position_trajectory, yaw_trajectory, time_trajectory,
                               ind_min, current_time)

------------------------------------------------------------------------------
(* lateral_position_control *)

lateral_position_control(gains, local_position_cmd, local_velocity_cmd, local_position, local_velocity, acceleration_ff) ==
    LET lateral_pos_error == VSub(local_position_cmd, local_position)
        p_term == VScale(gains.Kp_lateral_pos, lateral_pos_error)
        lateral_pos_dot_error == VSub(local_velocity_cmd, local_velocity)
        d_term == VScale(gains.Kd_lateral_pos, lateral_pos_dot_error)
    IN  VAdd(VAdd(p_term, d_term), acceleration_ff)

------------------------------------------------------------------------------
(* Angles.  An attitude component is one of a few named angles (doubles)   *)
(* whose sine and cosine are rational.  "pi/2" is the double np.pi/2: its  *)
(* sine is 1.0 and its cosine the small positive 6.1e-17 (np.cos returns   *)
(* exactly zero for no double), here 1/1000.                               *)

Angles == {"0", "atan(3/4)", "-atan(3/4)", "pi-atan(3/4)", "pi/2"}

np_cos(a) ==
    CASE a = "0" -> <<1, 1>>
      [] a = "atan(3/4)" -> <<4, 5>>
      [] a = "-atan(3/4)" -> <<4, 5>>
      [] a = "pi-atan(3/4)" -> <<-4, 5>>
      [] a = "pi/2" -> <<1, 1000>>

np_sin(a) ==
    CASE a = "0" -> <<0, 1>>
      [] a = "atan(3/4)" -> <<3, 5>>
      [] a = "-atan(3/4)" -> <<-3, 5>>
      [] a = "pi-atan(3/4)" -> <<3, 5>>
      [] a = "pi/2" -> <<1, 1>>

\* frame_utils.euler2RM: the body-to-inertial rotation matrix Rz(yaw) Ry(pitch) Rx(roll),
\* as a function on 0..2 x 0..2.
euler2RM(roll, pitch, yaw) ==
    LET cr == np_cos(roll)
        sr == np_sin(roll)
        cp == np_cos(pitch)
        sp == np_sin(pitch)
        cy == np_cos(yaw)
        sy == np_sin(yaw)
    IN  [ij \in (0..2) \X (0..2) |->
            CASE ij = <<0, 0>> -> Mul(cy, cp)
              [] ij = <<0, 1>> -> Sub(Mul(Mul(cy, sp), sr), Mul(sy, cr))
              [] ij = <<0, 2>> -> Add(Mul(Mul(cy, sp), cr), Mul(sy, sr))
              [] ij = <<1, 0>> -> Mul(sy, cp)
              [] ij = <<1, 1>> -> Add(Mul(Mul(sy, sp), sr), Mul(cy, cr))
              [] ij = <<1, 2>> -> Sub(Mul(Mul(sy, sp), cr), Mul(cy, sr))
              [] ij = <<2, 0>> -> Neg(sp)
              [] ij = <<2, 1>> -> Mul(cp, sr)
              [] ij = <<2, 2>> -> Mul(cp, cr)]

------------------------------------------------------------------------------
(* altitude_control *)

\* The closing if/elif: saturation of the thrust.
ClampThrust(thrust) ==
    IF Gt(thrust, MAX_THRUST) THEN MAX_THRUST
    ELSE IF Lt(thrust, F(0)) THEN F(0)
    ELSE thrust

altitude_control(gains, altitude_cmd, vertical_velocity_cmd, altitude, vertical_velocity, attitude, acceleration_ff) ==
    LET alt_error == Sub(altitude_cmd, altitude)
        p_term == Mul(gains.Kp_alt, alt_error)
        alt_dot_error == Sub(vertical_velocity_cmd, vertical_velocity)
        d_term == Mul(gains.Kd_alt, alt_dot_error)
        acc_cmd == Add(Add(p_term, d_term), acceleration_ff)
        b_z == Mul(np_cos(attitude[1]), np_cos(attitude[2]))
        thrust == Div(Mul(DRONE_MASS_KG, acc_cmd), b_z)
    IN  ClampThrust(thrust)

------------------------------------------------------------------------------
(* roll_pitch_controller.  Beside the returned rates the result records    *)
(* what the call evaluated: whether euler2RM was called and how many       *)
(* divisions were carried out.                                             *)

\* The condition written >= : zero thrust enters the computing branch.
HasThrust_OrZero(thrust_cmd) == Ge(thrust_cmd, F(0))

\* The condition of the if: thrust_cmd > 0.
HasThrust(thrust_cmd) == Gt(thrust_cmd, F(0))

roll_pitch_controller(gains, acceleration_cmd, attitude, thrust_cmd) ==
    IF HasThrust(thrust_cmd)
    THEN LET c == Div(Mul(F(-1), thrust_cmd), DRONE_MASS_KG)
             b_x_c_target == Clip(Div(acceleration_cmd[1], c), F(-1), F(1))
             b_y_c_target == Clip(Div(acceleration_cmd[2], c), F(-1), F(1))
             rot_mat == euler2RM(attitude[1], attitude[2], attitude[3])
             b_x == rot_mat[<<0, 2>>]
             b_x_err == Sub(b_x_c_target, b_x)
             b_x_p_term == Mul(gains.Kp_roll, b_x_err)
             b_y == rot_mat[<<1, 2>>]
             b_y_err == Sub(b_y_c_target, b_y)
             b_y_p_term == Mul(gains.Kp_pitch, b_y_err)
             b_x_cmd_dot == b_x_p_term
             b_y_cmd_dot == b_y_p_term
             m11 == Div(rot_mat[<<1, 0>>], rot_mat[<<2, 2>>])
             m12 == Div(Neg(rot_mat[<<0, 0>>]), rot_mat[<<2, 2>>])
             m21 == Div(rot_mat[<<1, 1>>], rot_mat[<<2, 2>>])
             m22 == Div(Neg(rot_mat[<<0, 1>>]), rot_mat[<<2, 2>>])
             p_c == Add(Mul(m11, b_x_cmd_dot), Mul(m12, b_y_cmd_dot))
             q_c == Add(Mul(m21, b_x_cmd_dot), Mul(m22, b_y_cmd_dot))
         IN  [rates |-> <<p_c, q_c>>, euler2RM_called |-> TRUE, divisions |-> 3]
    ELSE [rates |-> <<F(0), F(0)>>, euler2RM_called |-> FALSE, divisions |-> 0]

------------------------------------------------------------------------------
(* body_rate_control *)

\* np.linalg.norm of a vector: sqrt(dot(x, x)).
norm(x) == Sqrt(Add(Add(Mul(x[1], x[1]), Mul(x[2], x[2])), Mul(x[3], x[3])))

\* The closing if: direction-preserving saturation of the moment.
SaturateMoment(m_c) ==
    LET m_c_value == norm(m_c)
    IN  IF Gt(m_c_value, MAX_TORQUE)
        THEN VDivS(VScale(MAX_TORQUE, m_c), m_c_value)
        ELSE m_c

body_rate_control(gains, body_rate_cmd, body_rate) ==
    LET rate_err == VSub(body_rate_cmd, body_rate)
        Kp_rate == <<gains.Kp_p, gains.Kp_q, gains.Kp_r>>
        m_c == VMul(MOI, VMul(Kp_rate, rate_err))
    IN  SaturateMoment(m_c)

------------------------------------------------------------------------------
(* yaw_control *)

\* The if/elif: one turn is taken off or added when the error is outside [-pi, pi].
WrapYawError(yaw_err) ==
    IF Gt(yaw_err, PI) THEN Sub(yaw_err, Mul(F(2), PI))
    ELSE IF Lt(yaw_err, Neg(PI)) THEN Add(yaw_err, Mul(F(2), PI))
    ELSE yaw_err

yaw_control(gains, yaw_cmd, yaw) ==
    LET yaw_err == WrapYawError(Sub(yaw_cmd, yaw))
        r_c == Mul(gains.Kp_yaw, yaw_err)
    IN  Clip(r_c, F(0), Mul(F(2), PI))

------------------------------------------------------------------------------
(* The arguments a caller passes.  MaxFloat itself and its negation are    *)
(* finite floats, like 1e308 and -1e308.                                   *)

Huge == F(MaxFloat)

\* Sample times (seconds) a planner uses, and the times the sampler is asked about.
TimeVals == {0, 1, 5}

CurrentTimes == {F(-1), F(0), <<1, 2>>, F(1), <<5, 2>>, F(3), F(5), F(6)}

\* Two planners' waypoints, by sample number.
Waypoint(plan, i) ==
    IF plan = 1 THEN VInt(<<10 * (i - 1), 0, -5 * (i - 1)>>)
    ELSE VInt(<<i * i, 3, -i>>)

WaypointYaw(i) == Round(i - 1, 2)

Positions(plan, n) == [i \in 1..n |-> Waypoint(plan, i)]

Yaws(n) == [i \in 1..n |-> WaypointYaw(i)]

\* Non-decreasing time lists of length n.
TimeLists(n) ==
    {[i \in 1..n |-> F(t[i])] :
        t \in {u \in [1..n -> TimeVals] : \A i \in 1..(n - 1) : u[i] <= u[i + 1]}}

Vec2s == {<<F(0), F(0)>>, <<F(1), F(0)>>, <<F(0), F(-2)>>}

Accels == {<<F(0), F(0)>>, <<F(5), F(0)>>, <<F(-30), F(4)>>}

Heights == {F(0), F(1), F(-1), Huge, Neg(Huge)}

Feedforwards == {F(0), <<981, 100>>}

Thrusts == {F(-1), F(0), F(5), F(10), NInf}

RateCmds == {<<F(0), F(0), F(0)>>, <<F(3), F(4), F(0)>>, <<F(6), F(8), F(0)>>, <<F(30), F(40), F(0)>>, <<F(0), F(0), F(20)>>, <<F(0), F(0), F(40)>>, <<Huge, F(0), F(0)>>}

Rates == {<<F(0), F(0), F(0)>>, <<Neg(Huge), F(0), F(0)>>}

YawVals == {F(0), <<1, 10>>, F(3), F(-3), F(7), PI, Neg(PI)}

------------------------------------------------------------------------------
(* The controller object and its callers.  self holds the gains; op, args  *)
(* and ret are the last call, its arguments as passed and what it          *)
(* returned; argsAfter is what the caller's argument objects hold once the *)
(* call is over.  No method writes to self or to an argument: every        *)
(* numpy expression allocates its result.                                  *)

Init ==
    /\ self \in {DefaultGains, TunedGains}
    /\ op = "__init__"
    /\ args = <<>>
    /\ argsAfter = <<>>
    /\ ret = <<>>

\* No call is in progress: the caller holds no result it has yet to use.
Idle == op \in {"__init__", "idle"}

\* The caller uses the returned commands and drops them: nothing of a call
\* outlives the control tick.
Discard ==
    /\ ~Idle
    /\ op' = "idle"
    /\ args' = <<>>
    /\ argsAfter' = <<>>
    /\ ret' = <<>>
    /\ UNCHANGED self

Call_trajectory_control ==
    \E plan \in {1, 2}, nP \in 0..MaxLen, nY \in 0..MaxLen, nT \in 0..MaxLen :
      \E times \in TimeLists(nT), current_time \in CurrentTimes :
        /\ Idle
        /\ op' = "trajectory_control"
        /\ args' = [position_trajectory |-> Positions(plan, nP),
                    yaw_trajectory |-> Yaws(nY),
                    time_trajectory |-> times,
                    current_time |-> current_time]
        /\ argsAfter' = args'
        /\ ret' = trajectory_control(Positions(plan, nP), Yaws(nY), times, current_time)
        /\ UNCHANGED self

Call_lateral_position_control ==
    \E pc \in Vec2s, vc \in Vec2s, pos \in Vec2s, vel \in Vec2s, ff \in {<<F(0), F(0)>>, <<F(1), F(1)>>} :
        /\ Idle
        /\ op' = "lateral_position_control"
        /\ args' = [local_position_cmd |-> pc, local_velocity_cmd |-> vc,
                    local_position |-> pos, local_velocity |-> vel,
                    acceleration_ff |-> ff]
        /\ argsAfter' = args'
        /\ ret' = lateral_position_control(self, pc, vc, pos, vel, ff)
        /\ UNCHANGED self

Call_altitude_control ==
    \E ac \in Heights, vc \in Heights, alt \in {F(0), Neg(Huge)}, vv \in {F(0), Huge} :
      \E roll \in Angles, pitch \in {"0", "atan(3/4)", "pi/2"}, ff \in Feedforwards :
        /\ Idle
        /\ op' = "altitude_control"
        /\ args' = [altitude_cmd |-> ac, vertical_velocity_cmd |-> vc,
                    altitude |-> alt, vertical_velocity |-> vv,
                    attitude |-> <<roll, pitch, "0">>, acceleration_ff |-> ff]
        /\ argsAfter' = args'
        /\ ret' = altitude_control(self, ac, vc, alt, vv, <<roll, pitch, "0">>, ff)
        /\ UNCHANGED self

Call_roll_pitch_controller ==
    \E acc \in Accels, thrust_cmd \in Thrusts :
      \E roll \in {"0", "atan(3/4)", "pi/2"}, pitch \in {"0", "-atan(3/4)"}, yaw \in {"0", "atan(3/4)"} :
        /\ Idle
        /\ op' = "roll_pitch_controller"
        /\ args' = [acceleration_cmd |-> acc, attitude |-> <<roll, pitch, yaw>>,
                    thrust_cmd |-> thrust_cmd]
        /\ argsAfter' = args'
        /\ ret' = roll_pitch_controller(self, acc, <<roll, pitch, yaw>>, thrust_cmd)
        /\ UNCHANGED self

\* body_rate_control with the rate error computed in place
\* (rate_err = body_rate_cmd; rate_err -= body_rate): the caller's array changes.
Call_body_rate_control_InPlace ==
    \E body_rate_cmd \in RateCmds, body_rate \in Rates :
        /\ Idle
        /\ op' = "body_rate_control"
        /\ args' = [body_rate_cmd |-> body_rate_cmd, body_rate |-> body_rate]
        /\ argsAfter' = [args' EXCEPT !.body_rate_cmd = VSub(body_rate_cmd, body_rate)]
        /\ ret' = body_rate_control(self, body_rate_cmd, body_rate)
        /\ UNCHANGED self

Call_body_rate_control ==
    \E body_rate_cmd \in RateCmds, body_rate \in Rates :
        /\ Idle
        /\ op' = "body_rate_control"
        /\ args' = [body_rate_cmd |-> body_rate_cmd, body_rate |-> body_rate]
        /\ argsAfter' = args'
        /\ ret' = body_rate_control(self, body_rate_cmd, body_rate)
        /\ UNCHANGED self

Call_yaw_control ==
    \E yaw_cmd \in YawVals, yaw \in YawVals :
        /\ Idle
        /\ op' = "yaw_control"
        /\ args' = [yaw_cmd |-> yaw_cmd, yaw |-> yaw]
        /\ argsAfter' = args'
        /\ ret' = yaw_control(self, yaw_cmd, yaw)
        /\ UNCHANGED self

Next ==
    \/ Call_trajectory_control
    \/ Call_lateral_position_control
    \/ Call_altitude_control
    \/ Call_roll_pitch_controller
    \/ Call_body_rate_control
    \/ Call_yaw_control
    \/ Discard

Spec == Init /\ [][Next]_vars

------------------------------------------------------------------------------
(* Properties *)

IsCall(name) == op = name

\* The trajectory passed to the call in progress.
TrajP == args.position_trajectory

TrajY == args.yaw_trajectory

TrajT == args.time_trajectory

Returned == ret.raised = ""

\* Equal lengths, at least n samples.
ValidTrajectory(n) ==
    /\ Len(TrajT) >= n
    /\ Len(TrajP) = Len(TrajT)
    /\ Len(TrajY) = Len(TrajT)

StrictlyIncreasing(T) == \A i \in 1..(Len(T) - 1) : Lt(T[i], T[i + 1])

NotNaNVec(v) == \A i \in 1..Len(v) : ~IsNaN(v[i])

\* C1: altitude_control returns a defined thrust t with 0 <= t <= MAX_THRUST
\* for every combination of finite arguments.
C1_ThrustDefinedAndInRange ==
    IsCall("altitude_control") =>
        IsFinite(ret) /\ Le(F(0), ret) /\ Le(ret, MAX_THRUST)

\* The raw moment MOI * (Kp_p, Kp_q, Kp_r) * (body_rate_cmd - body_rate).
RawMoment ==
    VMul(MOI, VMul(<<self.Kp_p, self.Kp_q, self.Kp_r>>,
                   VSub(args.body_rate_cmd, args.body_rate)))

\* u is v scaled by a positive factor and has norm MAX_TORQUE.
ScaledToMaxTorque(u, v) ==
    /\ FEq(norm(u), MAX_TORQUE)
    /\ \A i \in 1..3 : \A j \in 1..3 : FEq(Mul(u[i], v[j]), Mul(u[j], v[i]))
    /\ \A i \in 1..3 : Sign(u[i][1]) = Sign(v[i][1])

\* C2: body_rate_control returns the raw moment unchanged when its norm is
\* at most MAX_TORQUE and otherwise that vector scaled uniformly to norm
\* MAX_TORQUE, so the norm of what it returns never exceeds MAX_TORQUE.
C2_MomentSaturated ==
    IsCall("body_rate_control") =>
        /\ Le(norm(RawMoment), MAX_TORQUE) => ret = RawMoment
        /\ ~Le(norm(RawMoment), MAX_TORQUE) => ScaledToMaxTorque(ret, RawMoment)
        /\ Le(norm(ret), MAX_TORQUE)

\* The value congruent to e modulo 2 pi that lies in (-pi, pi].
RECURSIVE WrapToHalfOpen(_)
WrapToHalfOpen(e) ==
    IF Gt(e, PI) THEN WrapToHalfOpen(Sub(e, Mul(F(2), PI)))
    ELSE IF Le(e, Neg(PI)) THEN WrapToHalfOpen(Add(e, Mul(F(2), PI)))
    ELSE e

\* C3: yaw_control returns clip(Kp_yaw * e, 0, 2 pi) with e the yaw error
\* wrapped into (-pi, pi], for every yaw_cmd and yaw.
C3_YawErrorWrapped ==
    IsCall("yaw_control") =>
        ret = Clip(Mul(self.Kp_yaw, WrapToHalfOpen(Sub(args.yaw_cmd, args.yaw))),
                   F(0), Mul(F(2), PI))

\* C4: for a trajectory of exactly one sample trajectory_control returns that
\* sample's position and yaw at every current_time.
C4_SingleSampleHold ==
    (IsCall("trajectory_control") /\ ValidTrajectory(1) /\ Len(TrajT) = 1) =>
        /\ Returned
        /\ ret.position_cmd = TrajP[1]
        /\ ret.yaw_cmd = TrajY[1]

\* C5: with non-decreasing times (repeats allowed), asking at the time of a
\* sample returns a defined position equal to a sample position at that time
\* and that sample's yaw.
C5_ExactAtSampleTime ==
    (/\ IsCall("trajectory_control")
     /\ ValidTrajectory(1)
     /\ \E i \in 1..Len(TrajT) : TrajT[i] = args.current_time) =>
        /\ Returned
        /\ \E j \in 1..Len(TrajT) :
              /\ TrajT[j] = args.current_time
              /\ ret.position_cmd = TrajP[j]
              /\ ret.yaw_cmd = TrajY[j]

\* The result is the interpolation over samples k, k+1 (1-based), which enclose
\* current_time.
OnSegment(k) ==
    LET dp == VSub(TrajP[k + 1], TrajP[k])
        dt == Sub(TrajT[k + 1], TrajT[k])
    IN  /\ Le(TrajT[k], args.current_time)
        /\ Le(args.current_time, TrajT[k + 1])
        /\ ret.seg = <<k - 1, k>>
        /\ ret.position_cmd =
              VAdd(TrajP[k], VDivS(VScale(Sub(args.current_time, TrajT[k]), dp), dt))
        /\ ret.velocity_cmd = VDivS(dp, dt)

\* A call of trajectory_control on two or more samples with strictly increasing times.
C6_Case ==
    /\ IsCall("trajectory_control")
    /\ ValidTrajectory(2)
    /\ StrictlyIncreasing(TrajT)
    /\ Le(TrajT[1], args.current_time)

\* C6 as stated: for every current_time from the first to the last sample time
\* (both included) the result is the interpolation over the enclosing pair of
\* consecutive samples.
C6_InterpolatesUpToLast ==
    (C6_Case /\ Le(args.current_time, TrajT[Len(TrajT)])) =>
        Returned /\ \E k \in 1..(Len(TrajT) - 1) : OnSegment(k)

\* C6 (amended): for every current_time from the first sample time up to, but
\* not including, the last, the result is the interpolation over the enclosing
\* pair of consecutive samples; at the last sample time the result holds the
\* last position with zero velocity.
C6_InterpolatesBeforeLast ==
    /\ (C6_Case /\ Lt(args.current_time, TrajT[Len(TrajT)])) =>
          Returned /\ \E k \in 1..(Len(TrajT) - 1) : OnSegment(k)
    /\ (C6_Case /\ args.current_time = TrajT[Len(TrajT)]) =>
          /\ Returned
          /\ ret.position_cmd = TrajP[Len(TrajP)]
          /\ ret.velocity_cmd = <<F(0), F(0), F(0)>>

\* The worked example: samples ([0,0,0], t 0) and ([10,0,-5], t 5) at time 2.5.
C6_Witness ==
    /\ C6_Case
    /\ TrajT = <<F(0), F(5)>>
    /\ TrajP = <<VInt(<<0, 0, 0>>), VInt(<<10, 0, -5>>)>>
    /\ args.current_time = <<5, 2>>
    /\ ret.position_cmd = <<F(5), F(0), <<-5, 2>>>>
    /\ ret.velocity_cmd = <<F(2), F(0), F(-1)>>

\* C7: an empty trajectory, or one whose three lists differ in length, ends in
\* an error at every current_time.
C7_InvalidTrajectoryRaises ==
    (IsCall("trajectory_control") /\ ~ValidTrajectory(1)) => ~Returned

\* C8: with thrust_cmd <= 0 roll_pitch_controller returns (0, 0) whatever the
\* acceleration command and attitude, evaluating neither the rotation matrix
\* nor a division.
C8_NoThrustNoRates ==
    (IsCall("roll_pitch_controller") /\ Le(args.thrust_cmd, F(0))) =>
        /\ ret.rates = <<F(0), F(0)>>
        /\ ~ret.euler2RM_called
        /\ ret.divisions = 0

\* Zero thrust with a non-zero acceleration command and a tilted attitude.
C8_Witness ==
    /\ IsCall("roll_pitch_controller")
    /\ args.thrust_cmd = F(0)
    /\ args.acceleration_cmd = <<F(-30), F(4)>>
    /\ args.attitude = <<"pi/2", "-atan(3/4)", "atan(3/4)">>
    /\ ret.rates = <<F(0), F(0)>>

\* C9: no call changes the gains or the objects the caller passed.
C9_CallsChangeNothing ==
    [][self' = self /\ argsAfter' = args']_vars

\* A saturating body_rate_control call on a controller built with its own gains.
C9_Witness ==
    /\ IsCall("body_rate_control")
    /\ self = TunedGains
    /\ args.body_rate_cmd = <<F(30), F(40), F(0)>>
    /\ argsAfter = args
    /\ ret = <<(<<3, 5>>), (<<4, 5>>), F(0)>>

\* C10: with two or more samples, when current_time is earlier than the first
\* sample, which is the nearest, the segment starts at the first sample and
\* the position and yaw returned are the first sample's.
C10_ClampsToFirstSample ==
    (/\ IsCall("trajectory_control")
     /\ ValidTrajectory(2)
     /\ NearestIndex(TrajT, args.current_time) = 0
     /\ Lt(args.current_time, TrajT[1])) =>
        /\ Returned
        /\ ret.seg[1] = 0
        /\ ret.position_cmd = TrajP[1]
        /\ ret.yaw_cmd = TrajY[1]

====
